---- MODULE Spec2Model ----
(***************************************************************************)
(* School bell system (school_bell_system.py): the bell scheduler ringBell, *)
(* the process-wide mode flag CURRENT_MODE, the pygame music player it      *)
(* drives and the bell menu it is called from.                              *)
(*                                                                          *)
(* Time is counted in slots; SlotsPerMinute slots make a minute.  The wall  *)
(* clock `now` is the number of slots since 00:00:00 of date 0, and the     *)
(* date, hour and minute the code reads are computed from it.               *)
(***************************************************************************)
EXTENDS Integers, Sequences, FiniteSets, TLC

\* ------------------------------------------------------------------ bounds
SlotsPerMinute == 2
MaxMinutesElapsed == 2
MaxEntries == 2
MaxInterval == 2
MaxPlay == 2

\* ------------------------------------------------------- program constants
MaxHour == 23
MaxMinute == 59

Modes == {"IDLE", "BELL", "ASSEMBLY", "ANNOUNCEMENT"}

\* ------------------------------------------------------------- wall clock
SlotsPerDay == (MaxHour + 1) * (MaxMinute + 1) * SlotsPerMinute

\* date.today()
DateOf(t) == t \div SlotsPerDay

MinuteOfDay(t) == (t % SlotsPerDay) \div SlotsPerMinute

\* (now.hour, now.minute)
HourMinute(t) == << MinuteOfDay(t) \div (MaxMinute + 1), MinuteOfDay(t) % (MaxMinute + 1) >>

\* the explored window of wall-clock time: from 23:59:00 of date 0 on
FirstNow == SlotsPerDay - SlotsPerMinute
LastNow == FirstNow + MaxMinutesElapsed * SlotsPerMinute

\* ------------------------------------------------- entries of schedule_list
\* An entry is the text t of schedule_list as t.split(":") sees it: its parts,
\* and whether int() accepts every part.
Entry(ps, num) == [parts |-> ps, numeric |-> num]

WindowTimes == { HourMinute(t) : t \in FirstNow .. LastNow }

EntryPool ==
    { Entry(hm, TRUE) : hm \in WindowTimes }
    \cup { Entry(<< MaxHour + 1, 0 >>, TRUE),
           Entry(<< MaxHour, MaxMinute + 1 >>, TRUE),
           Entry(<< MaxHour, 0 >>, FALSE),
           Entry(<< MaxHour >>, TRUE) }

ScheduleLists == UNION { [1 .. n -> EntryPool] : n \in 0 .. MaxEntries }

\* h, m = map(int, t.split(":")); 0 <= h <= 23 and 0 <= m <= 59
ValidEntry(e) ==
    /\ Len(e.parts) = 2
    /\ e.numeric
    /\ 0 <= e.parts[1] /\ e.parts[1] <= MaxHour
    /\ 0 <= e.parts[2] /\ e.parts[2] <= MaxMinute

\* the set of (hour, minute) built from schedule_list
ParseSchedule(list) ==
    { << list[i].parts[1], list[i].parts[2] >> :
        i \in { j \in 1 .. Len(list) : ValidEntry(list[j]) } }

\* why ringBell returned before its loop
EarlyReturn(list) == IF list = << >> THEN "no_times" ELSE "no_valid"

EntersLoop_NoValidCheck(list) == list # << >>

\* ringBell reaches its while loop: neither early return is taken
EntersLoop(list) == list # << >> /\ ParseSchedule(list) # {}

\* ------------------------------------------------------------- time texts
\* A text is the sequence of its characters.
DigitChars == << "0", "1", "2", "3", "4", "5", "6", "7", "8", "9" >>

\* f"{n:02d}" for n in 0 .. 99
TwoDigits(n) == << DigitChars[(n \div 10) + 1], DigitChars[(n % 10) + 1] >>

\* f"{h:02d}:{m:02d}"
FormatHHMM(h, m) == TwoDigits(h) \o << ":" >> \o TwoDigits(m)

\* ------------------------------------------------------ operations on texts
IsDigit(c) == \E n \in 1 .. Len(DigitChars) : DigitChars[n] = c

DigitValue(c) == (CHOOSE n \in 1 .. Len(DigitChars) : DigitChars[n] = c) - 1

LowerChar(c) ==
    CASE c = "A" -> "a"
      [] c = "P" -> "p"
      [] c = "M" -> "m"
      [] OTHER -> c

\* s.lower()
Lower(s) == [i \in 1 .. Len(s) |-> LowerChar(s[i])]

NonBlank(s) == { i \in 1 .. Len(s) : s[i] # " " }

\* s.strip()
Strip(s) ==
    LET kept == NonBlank(s)
    IN  IF kept = {}
        THEN << >>
        ELSE SubSeq(s, CHOOSE i \in kept : \A j \in kept : i <= j,
                       CHOOSE i \in kept : \A j \in kept : j <= i)

\* the two-character text ab occurs in s
Contains(s, a, b) == \E i \in 1 .. Len(s) - 1 : s[i] = a /\ s[i + 1] = b

\* s.replace(ab, ""): the occurrences are taken from the left, without overlap
RECURSIVE Remove(_, _, _)
Remove(s, a, b) ==
    IF Len(s) < 2 THEN s
    ELSE IF s[1] = a /\ s[2] = b THEN Remove(SubSeq(s, 3, Len(s)), a, b)
    ELSE << s[1] >> \o Remove(Tail(s), a, b)

Colons(s) == { i \in 1 .. Len(s) : s[i] = ":" }

FirstColon(s) == CHOOSE i \in Colons(s) : \A j \in Colons(s) : i <= j

\* s.split(":")
RECURSIVE SplitColon(_)
SplitColon(s) ==
    IF Colons(s) = {} THEN << s >>
    ELSE << SubSeq(s, 1, FirstColon(s) - 1) >>
             \o SplitColon(SubSeq(s, FirstColon(s) + 1, Len(s)))

\* the text int() reads after its own strip and an optional sign
IntBody(x) ==
    LET s == Strip(x)
    IN  IF s # << >> /\ Head(s) \in {"+", "-"} THEN Tail(s) ELSE s

\* int(x) returns: x is a decimal literal
IntValid(x) ==
    LET body == IntBody(x)
    IN  body # << >> /\ \A i \in 1 .. Len(body) : IsDigit(body[i])

RECURSIVE DigitsValue(_)
DigitsValue(d) ==
    IF d = << >> THEN 0
    ELSE 10 * DigitsValue(SubSeq(d, 1, Len(d) - 1)) + DigitValue(d[Len(d)])

\* int(x), for x a decimal literal
IntOf(x) ==
    IF Head(Strip(x)) = "-" THEN 0 - DigitsValue(IntBody(x)) ELSE DigitsValue(IntBody(x))

\* ---------------------------------------------------------- parse_time_to_24h
\* what the parser gives its caller: the text it returns, or a ValueError
Returned(x) == [ok |-> TRUE, text |-> x]
ValueError == [ok |-> FALSE, text |-> << >>]

ConvertHour_AlwaysAdds(h, ampm) ==
    IF ampm = "am" /\ h = 12 THEN 0
    ELSE IF ampm = "pm" THEN h + 12
    ELSE h

\* if ampm == "am": 12 becomes 0; elif ampm == "pm": every hour but 12 gets 12 added
ConvertHour(h, ampm) ==
    IF ampm = "am" /\ h = 12 THEN 0
    ELSE IF ampm = "pm" /\ h # 12 THEN h + 12
    ELSE h

\* not (0 <= h <= 23 and 0 <= m <= 59)
OutOfRange(h, m) == ~(0 <= h /\ h <= MaxHour /\ 0 <= m /\ m <= MaxMinute)

\* s is t.strip().lower(); afterAm and unmarked are s after the "am" replace
\* and after the "pm" replace and the second strip; numbers are the texts given
\* to int(): parts[0] and parts[1], or s alone.
parse_time_to_24h(t) ==
    LET s == Lower(Strip(t))
        hasAm == Contains(s, "a", "m")
        afterAm == IF hasAm THEN Remove(s, "a", "m") ELSE s
        hasPm == Contains(afterAm, "p", "m")
        ampm == IF hasAm THEN "am" ELSE IF hasPm THEN "pm" ELSE ""
        unmarked == Strip(IF hasPm THEN Remove(afterAm, "p", "m") ELSE afterAm)
        numbers == IF Colons(unmarked) # {} THEN SplitColon(unmarked) ELSE << unmarked >>
    IN  IF s = << >> THEN ValueError
        ELSE IF hasAm /\ hasPm THEN ValueError
        ELSE IF Len(numbers) # 1 /\ Len(numbers) # 2 THEN ValueError
        ELSE IF \E i \in 1 .. Len(numbers) : ~IntValid(numbers[i]) THEN ValueError
        ELSE LET h == ConvertHour(IntOf(numbers[1]), ampm)
                 m == IF Len(numbers) = 2 THEN IntOf(numbers[2]) ELSE 0
             IN  IF OutOfRange(h, m) THEN ValueError ELSE Returned(FormatHHMM(h, m))

\* ------------------------------------------------------------ BELL_SCHEDULES
\* A dict is the sequence of its items in insertion order.
Item(k, v) == [name |-> k, times |-> v]

InitialSchedules ==
    << Item("Regular Day", << FormatHHMM(8, 30), FormatHHMM(9, 30), FormatHHMM(10, 30),
                              FormatHHMM(11, 30), FormatHHMM(12, 30) >>),
       Item("Short Friday", << FormatHHMM(8, 30), FormatHHMM(9, 15), FormatHHMM(10, 0),
                               FormatHHMM(10, 45) >>) >>

\* k in d
DictHas(d, k) == \E i \in 1 .. Len(d) : d[i].name = k

DictIndex(d, k) == CHOOSE i \in 1 .. Len(d) : d[i].name = k

\* d[k], for k in d
DictGet(d, k) == d[DictIndex(d, k)].times

\* d[k] = v: a key the dict holds keeps its place, a new key goes last
DictSet(d, k, v) ==
    IF DictHas(d, k)
    THEN [d EXCEPT ![DictIndex(d, k)] = Item(k, v)]
    ELSE Append(d, Item(k, v))

DictKeep(it, k) == it.name # k

\* del d[k], for k in d
DictDel(d, k) == SelectSeq(d, LAMBDA it : DictKeep(it, k))

\* list(BELL_SCHEDULES.keys())
list_schedule_names(d) == [i \in 1 .. Len(d) |-> d[i].name]

\* BELL_SCHEDULES.get(name, None)
get_schedule(d, name) ==
    IF DictHas(d, name)
    THEN [found |-> TRUE, times |-> DictGet(d, name)]
    ELSE [found |-> FALSE, times |-> << >>]

\* BELL_SCHEDULES[name] = time_list
update_schedule(d, name, time_list) == DictSet(d, name, time_list)

rename_schedule_NoGuard(d, old_name, new_name) ==
    DictDel(DictSet(d, new_name, get_schedule(d, old_name).times), old_name)

\* if old_name in BELL_SCHEDULES: the assignment to new_name, then del of old_name
rename_schedule(d, old_name, new_name) ==
    IF DictHas(d, old_name)
    THEN DictDel(DictSet(d, new_name, DictGet(d, old_name)), old_name)
    ELSE d

\* the del of rename_schedule raises KeyError
rename_raises(d, old_name, new_name) ==
    /\ DictHas(d, old_name)
    /\ ~DictHas(DictSet(d, new_name, DictGet(d, old_name)), old_name)

\* if name in BELL_SCHEDULES: del BELL_SCHEDULES[name]
delete_schedule(d, name) == IF DictHas(d, name) THEN DictDel(d, name) ELSE d

\* no index has been turned down yet
NoneRefused == << "none" >>

\* the keys of DAY_CONFIG: Monday to Friday
InitialDays == 0 .. 4

\* no time has been typed, none parsed
NothingTyped == [grammar |-> FALSE, hour |-> 0, minute |-> 0, marker |-> ""]
NotParsed == [done |-> FALSE, ok |-> FALSE, text |-> << >>]

NoCall == [op |-> "none", a |-> "", b |-> "", had |-> FALSE, raised |-> FALSE]

VARIABLES
    CURRENT_MODE,    \* the global mode flag
    pc,              \* where control is: "menu", "tick", "playing", "sleep", "returned",
                     \* "terminated"
    now,             \* the wall clock, in slots
    player,          \* pygame.mixer.music: "idle" or "busy"
    check_interval,  \* ringBell's argument, in slots
    today_only,      \* ringBell's argument
    schedule,        \* ringBell's local: the fire set
    rung_today,      \* ringBell's local: the fired-today set
    start_date,      \* ringBell's local
    hm,              \* ringBell's local: the (hour, minute) of the last BELL tick
    played,          \* slots the current playback has lasted
    lastReturn,      \* history: how the last call of ringBell ended
    hadValid,        \* history: this run's schedule_list held a well-formed HH:MM time
    fireLog,         \* history: the playbacks this run started
    modeAlwaysBell,  \* history: CURRENT_MODE was BELL throughout this run
    suppressed,      \* history: a tick of this run found CURRENT_MODE # BELL
    run_begin,       \* history: the clock when this run began
    last_tick,       \* history: the clock at this run's last tick
    gapExceeded      \* history: two ticks of this run were more than a minute apart

VARIABLES
    BELL_SCHEDULES,  \* the schedule store: a dict, kept in insertion order
    lastCall         \* history: the last call of a store function and its arguments

VARIABLES
    DAY_CONFIG,      \* the day indices (Monday = 0) that have an assembly configuration
    first_weekday,   \* datetime.now().weekday() on date 0
    refused          \* history: the last index text a selection point of the bell menu
                     \* did not accept ("none" before any)

VARIABLES
    typed,           \* history: what the operator meant to type: hour, minute, marker
    time_input,      \* the text t given to parse_time_to_24h
    canonical        \* what parse_time_to_24h gave back

vars == << CURRENT_MODE, pc, now, player, check_interval, today_only,
           schedule, rung_today, start_date, hm, played, lastReturn, hadValid, fireLog,
           modeAlwaysBell, suppressed, run_begin, last_tick, gapExceeded,
           BELL_SCHEDULES, lastCall, typed, time_input, canonical,
           DAY_CONFIG, first_weekday, refused >>

store == << BELL_SCHEDULES, lastCall >>

parser == << typed, time_input, canonical >>

screens == << DAY_CONFIG, first_weekday, refused >>

\* what the bell scheduler never touches
others == << store, parser, screens >>

args == << check_interval, today_only >>
locals == << schedule, rung_today, start_date, hm >>
history == << hadValid, fireLog, modeAlwaysBell, suppressed, run_begin, last_tick,
              gapExceeded >>

RunPCs == {"tick", "playing", "sleep"}

\* the mode flag, the player and everything of the bell scheduler
engine == << CURRENT_MODE, pc, now, player, args, locals, played, lastReturn, history >>

\* A well-formed 24-hour HH:MM text, stated without the code's parsing.
IsHHMM(e) ==
    /\ e.numeric
    /\ Len(e.parts) = 2
    /\ e.parts[1] \in 0 .. 23
    /\ e.parts[2] \in 0 .. 59

\* No frame of ringBell exists: its arguments, its locals and the run's history
\* hold their initial values.
NoFrame ==
    /\ check_interval' = 1
    /\ today_only' = FALSE
    /\ schedule' = {}
    /\ rung_today' = {}
    /\ start_date' = 0
    /\ hm' = << 0, 0 >>
    /\ played' = 0
    /\ hadValid' = FALSE
    /\ fireLog' = << >>
    /\ modeAlwaysBell' = FALSE
    /\ suppressed' = FALSE
    /\ run_begin' = 0
    /\ last_tick' = 0
    /\ gapExceeded' = FALSE

\* The module has been loaded: every global holds its initial value and no
\* call has been made.
Constructed ==
    /\ CURRENT_MODE = "IDLE"
    /\ now = FirstNow
    /\ player = "idle"
    /\ check_interval = 1
    /\ today_only = FALSE
    /\ schedule = {}
    /\ rung_today = {}
    /\ start_date = 0
    /\ hm = << 0, 0 >>
    /\ played = 0
    /\ lastReturn = "none"
    /\ hadValid = FALSE
    /\ fireLog = << >>
    /\ modeAlwaysBell = FALSE
    /\ suppressed = FALSE
    /\ run_begin = 0
    /\ last_tick = 0
    /\ gapExceeded = FALSE
    /\ BELL_SCHEDULES = InitialSchedules
    /\ lastCall = NoCall
    /\ canonical = NotParsed
    /\ DAY_CONFIG = InitialDays
    /\ refused = NoneRefused

Init ==
    /\ Constructed
    /\ pc = "menu"
    /\ first_weekday = 0
    /\ typed = NothingTyped
    /\ time_input = << >>

\* ------------------------------------------------------------------ set_mode
SetMode(mode) ==
    /\ pc # "terminated"
    /\ CURRENT_MODE' = mode
    /\ modeAlwaysBell' = (modeAlwaysBell /\ mode = "BELL")
    /\ UNCHANGED << others, pc, now, player, args, locals, played, lastReturn, hadValid,
                    fireLog, suppressed, run_begin, last_tick, gapExceeded >>

\* ------------------------------------------------------------------ ringBell
\* The call from the bell menu up to the first evaluation of `while True`, or
\* to one of the two early returns.  The caller chooses schedule_list,
\* check_interval (in slots) and today_only.
RingBell(list) ==
    /\ pc = "menu"
    /\ IF EntersLoop(list)
       THEN /\ pc' = "tick"
            /\ check_interval' \in 1 .. MaxInterval
            /\ today_only' \in BOOLEAN
            /\ schedule' = ParseSchedule(list)
            /\ rung_today' = {}
            /\ start_date' = DateOf(now)
            /\ hadValid' = (\E i \in 1 .. Len(list) : IsHHMM(list[i]))
            /\ modeAlwaysBell' = (CURRENT_MODE = "BELL")
            /\ run_begin' = now
            /\ last_tick' = now
            /\ UNCHANGED << hm, played, lastReturn, fireLog, suppressed, gapExceeded >>
       ELSE /\ pc' = "returned"
            /\ lastReturn' = EarlyReturn(list)
            /\ NoFrame
    /\ UNCHANGED << others, CURRENT_MODE, now, player >>

ModeGate_Open == TRUE

\* CURRENT_MODE != "BELL" is false
ModeGate == CURRENT_MODE = "BELL"

DateChanged == DateOf(now) # start_date

ExpiresToday_Never == FALSE

\* if today_only and date.today() != start_date: break
ExpiresToday == today_only /\ DateChanged

ResetsAtMidnight_Never == FALSE

ResetsAtMidnight_EveryTick == ~today_only

\* if date.today() != start_date and not today_only
ResetsAtMidnight == DateChanged /\ ~today_only

ShouldRing_NoDedup(t, rung) == t \in schedule

ShouldRing_NoMembership(t, rung) == t \notin rung

ShouldRing_OncePerRun(t, rung) == t \in schedule /\ fireLog = << >>

ShouldRing_CatchUp(t, rung) == \E u \in schedule : u \notin rung

\* if hm in schedule and hm not in rung_today
ShouldRing(t, rung) == t \in schedule /\ t \notin rung

\* One pass of the loop body from `while True` to the first suspension point:
\* the sleep, the wait for playback, or the end of the run.
Tick ==
    /\ pc = "tick"
    /\ IF ~ModeGate
       THEN /\ pc' = "sleep"
            /\ suppressed' = TRUE
            /\ last_tick' = now
            /\ gapExceeded' = (gapExceeded \/ now - last_tick > SlotsPerMinute)
            /\ UNCHANGED << player, args, locals, played, lastReturn, hadValid, fireLog,
                            modeAlwaysBell, run_begin >>
       ELSE IF ExpiresToday
       THEN /\ pc' = "returned"
            /\ lastReturn' = "date"
            /\ NoFrame
            /\ UNCHANGED player
       ELSE /\ start_date' = IF ResetsAtMidnight THEN DateOf(now) ELSE start_date
            /\ rung_today' = IF ResetsAtMidnight THEN {} ELSE rung_today
            /\ hm' = HourMinute(now)
            /\ IF ShouldRing(hm', rung_today')
               THEN \/ \* music.load and music.play succeed
                       /\ player' = "busy"
                       /\ pc' = "playing"
                       /\ fireLog' = Append(fireLog,
                                       [date |-> DateOf(now), at |-> hm',
                                        mode |-> CURRENT_MODE, resumed |-> suppressed,
                                        slot |-> now])
                       /\ last_tick' = now
                       /\ gapExceeded' = (gapExceeded \/ now - last_tick > SlotsPerMinute)
                       /\ UNCHANGED << args, schedule, played, lastReturn, hadValid,
                                       modeAlwaysBell, suppressed, run_begin >>
                    \/ \* music.load or music.play raises pygame.error: nothing
                       \* in ringBell, bell_menu or main_menu catches it
                       /\ pc' = "terminated"
                       /\ lastReturn' = "audio_error"
                       /\ UNCHANGED << player, args, schedule, played, history >>
               ELSE /\ pc' = "sleep"
                    /\ last_tick' = now
                    /\ gapExceeded' = (gapExceeded \/ now - last_tick > SlotsPerMinute)
                    /\ UNCHANGED << player, args, schedule, played, lastReturn, hadValid,
                                    fireLog, modeAlwaysBell, suppressed, run_begin >>
    /\ UNCHANGED << others, CURRENT_MODE, now >>

\* while pygame.mixer.music.get_busy(): time.sleep(0.05) -- the music still plays
BusyWait ==
    /\ pc = "playing"
    /\ player = "busy"
    /\ played < MaxPlay
    /\ now < LastNow
    /\ now' = now + 1
    /\ played' = played + 1
    /\ UNCHANGED << others, CURRENT_MODE, pc, player, args, locals, lastReturn, history >>

\* the music ends, get_busy() is false: rung_today.add(hm)
PlaybackEnds ==
    /\ pc = "playing"
    /\ player = "busy"
    /\ player' = "idle"
    /\ rung_today' = rung_today \cup {hm}
    /\ played' = 0
    /\ pc' = "sleep"
    /\ UNCHANGED << others, CURRENT_MODE, now, args, schedule, start_date, hm, lastReturn, history >>

\* time.sleep(check_interval), on either path that reaches it
Sleep ==
    /\ pc = "sleep"
    /\ now + check_interval <= LastNow
    /\ now' = now + check_interval
    /\ pc' = "tick"
    /\ UNCHANGED << others, CURRENT_MODE, player, args, locals, played, lastReturn, history >>

\* KeyboardInterrupt in one of the sleeps: except KeyboardInterrupt, return.
\* Nothing stops the music.
Interrupt ==
    /\ pc \in {"sleep", "playing"}
    /\ pc' = "returned"
    /\ lastReturn' = "interrupt"
    /\ NoFrame
    /\ UNCHANGED << others, CURRENT_MODE, now, player >>

\* ------------------------------------------------------------- bell menu
\* ringBell has returned: the bell menu's loop goes back to its prompt.
BackToMenu ==
    /\ pc = "returned"
    /\ pc' = "menu"
    /\ lastReturn' = "none"
    /\ UNCHANGED << others, CURRENT_MODE, now, player, args, locals, played, history >>

\* The menu waits at input(): time passes.
MenuWait ==
    /\ pc = "menu"
    /\ now < LastNow
    /\ now' = now + 1
    /\ UNCHANGED << others, CURRENT_MODE, pc, player, args, locals, played, lastReturn, history >>

\* Music left playing by an interrupted run ends by itself.
MusicEnds ==
    /\ pc \in {"menu", "tick", "sleep"}
    /\ player = "busy"
    /\ player' = "idle"
    /\ UNCHANGED << others, CURRENT_MODE, pc, now, args, locals, played, lastReturn, history >>

Next ==
    \/ \E mode \in Modes : SetMode(mode)
    \/ \E list \in ScheduleLists : RingBell(list)
    \/ Tick
    \/ BusyWait
    \/ PlaybackEnds
    \/ Sleep
    \/ Interrupt
    \/ BackToMenu
    \/ MenuWait
    \/ MusicEnds

\* The engine with its environment: ringBell is called from the bell menu with
\* any arguments, and CURRENT_MODE, a process-wide flag, may be set by set_mode
\* at any moment of a run.
Spec == Init /\ [][Next]_vars

\* ------------------------------------------------- the schedule store alone
StoreNames == {"Regular Day", "Short Friday", "Exam Day"}

\* the time lists a caller hands to update_schedule
TimeListPool ==
    { << >>,
      << FormatHHMM(8, 30) >>,
      << FormatHHMM(8, 30), FormatHHMM(9, 0) >>,
      << FormatHHMM(9, 0), FormatHHMM(8, 30) >>,
      << FormatHHMM(8, 30), FormatHHMM(8, 30), FormatHHMM(9, 0) >> }

Call(op, a, b) ==
    [op |-> op, a |-> a, b |-> b, had |-> DictHas(BELL_SCHEDULES, a), raised |-> FALSE]

UpdateSchedule(name, time_list) ==
    /\ BELL_SCHEDULES' = update_schedule(BELL_SCHEDULES, name, time_list)
    /\ lastCall' = Call("update", name, "")
    /\ UNCHANGED << engine, parser, screens >>

RenameSchedule(old_name, new_name) ==
    /\ BELL_SCHEDULES' = rename_schedule(BELL_SCHEDULES, old_name, new_name)
    /\ lastCall' = [Call("rename", old_name, new_name) EXCEPT
                        !.raised = rename_raises(BELL_SCHEDULES, old_name, new_name)]
    /\ UNCHANGED << engine, parser, screens >>

DeleteSchedule(name) ==
    /\ BELL_SCHEDULES' = delete_schedule(BELL_SCHEDULES, name)
    /\ lastCall' = Call("delete", name, "")
    /\ UNCHANGED << engine, parser, screens >>

StoreNext ==
    \/ \E name \in StoreNames, time_list \in TimeListPool : UpdateSchedule(name, time_list)
    \/ \E old_name \in StoreNames, new_name \in StoreNames : RenameSchedule(old_name, new_name)
    \/ \E name \in StoreNames : DeleteSchedule(name)

\* The store functions called directly, in any order, with any names.
StoreSpec == Init /\ [][StoreNext]_vars

\* ------------------------------------------------------- the parser alone
\* A time as an operator types it within the accepted grammar: an hour, a
\* minute or none (-1), a marker or none, written with or without a leading
\* zero, a blank before the marker, capitals in the marker.
TypedTimes ==
    [grammar : {TRUE}, hour : 0 .. MaxHour + 2,
     minute : {-1, 0, 5, 30, MaxMinute, MaxMinute + 1},
     marker : {"", "am", "pm"}, padded : BOOLEAN, blank : BOOLEAN, capitals : BOOLEAN]

HourText(ty) ==
    IF ty.padded \/ ty.hour >= 10 THEN TwoDigits(ty.hour) ELSE << DigitChars[ty.hour + 1] >>

MinuteText(ty) == IF ty.minute = -1 THEN << >> ELSE << ":" >> \o TwoDigits(ty.minute)

MarkerText(ty) ==
    CASE ty.marker = "" -> << >>
      [] ty.marker = "am" -> IF ty.capitals THEN << "A", "M" >> ELSE << "a", "m" >>
      [] ty.marker = "pm" -> IF ty.capitals THEN << "P", "M" >> ELSE << "p", "m" >>

\* the characters the operator types for ty
Render(ty) ==
    HourText(ty) \o MinuteText(ty)
        \o (IF ty.blank /\ ty.marker # "" THEN << " " >> ELSE << >>) \o MarkerText(ty)

\* texts outside the grammar
OtherTexts ==
    { << >>, << " " >>, << "9", "a", "m", "P", "M" >>, << "a", "m" >>, << ":" >>,
      << "1", ":", "2", ":", "3" >>, << "-", "1" >>, << "9", " ", "3", "0" >>,
      << "n", "o", "o", "n" >>, << "a", "m", "9" >>, << "9", ":" >> }

ParserInit ==
    /\ Constructed
    /\ pc = "menu"
    /\ first_weekday = 0
    /\ \/ typed \in TypedTimes /\ time_input = Render(typed)
       \/ typed = NothingTyped /\ time_input \in OtherTexts

\* canonical = parse_time_to_24h(t), or the ValueError it raises
ParseTime ==
    /\ ~canonical.done
    /\ canonical' = [done |-> TRUE] @@ parse_time_to_24h(time_input)
    /\ UNCHANGED << engine, store, screens, typed, time_input >>

ParserNext == ParseTime

\* parse_time_to_24h applied to one text.
ParserSpec == ParserInit /\ [][ParserNext]_vars

\* ------------------------------------------------ the menu-driven program
\* check_interval=20, the default, in slots
DefaultIntervalSeconds == 20
DefaultInterval == (DefaultIntervalSeconds * SlotsPerMinute + 59) \div 60

\* what ringBell makes of a stored text: t.split(":") and int() on every part
EntryOf(x) ==
    LET texts == SplitColon(x)
    IN  Entry([i \in 1 .. Len(texts) |-> IF IntValid(texts[i]) THEN IntOf(texts[i]) ELSE 0],
              \A i \in 1 .. Len(texts) : IntValid(texts[i]))

EntriesOf(times) == [i \in 1 .. Len(times) |-> EntryOf(times[i])]

ParsesOk(x) == parse_time_to_24h(x).ok

ParsedTimes_AsTyped(inputs) == inputs

\* the list built by the loop `t = input("Time: ")` ... `done`: the canonical
\* text of every typed text the parser accepts, in the order typed
ParsedTimes(inputs) ==
    [i \in 1 .. Len(SelectSeq(inputs, ParsesOk)) |->
        parse_time_to_24h(SelectSeq(inputs, ParsesOk)[i]).text]

\* what the operator types at `Time:` before `done`
TypedLists ==
    { << >>,
      << << "2", "5" >> >>,
      << << "1", "2", " ", "A", "M" >>, << "2", "4" >>, << "1", "1", ":", "5", "9", "p", "m" >> >> }

\* the lists these give: todays_times, new_times, times
TypedTimes_Parsed == { ParsedTimes(inputs) : inputs \in TypedLists }

\* what the operator types at `Schedule name:` and `New name:`, stripped
TypedNames == {"", "Exam Day"}

\* one character for which str.isdigit() is true and int() raises
SuperscriptTwo == "sup2"

\* what the operator types at a selection point, stripped
IndexInputs ==
    { << "0" >>, << "0", "0" >>, << "1" >>, << "0", "2" >>, << "3" >>, << "x" >>,
      << SuperscriptTwo >> }

\* choice_idx.isdigit()
StrIsDigit(x) ==
    x # << >> /\ \A i \in 1 .. Len(x) : IsDigit(x[i]) \/ x[i] = SuperscriptTwo

IndexOutcome_NoZeroCheck(choice_idx, names) ==
    IF ~StrIsDigit(choice_idx) THEN "invalid"
    ELSE IF ~IntValid(choice_idx) THEN "crash"
    ELSE IF IntOf(choice_idx) > Len(names) THEN "invalid"
    ELSE "picked"

\* the tests between `choice_idx = input("Choose: ").strip()` and
\* `name = names[idx - 1]`; int() raising ValueError is caught nowhere
IndexOutcome(choice_idx, names) ==
    IF choice_idx = << "0" >> THEN "back"
    ELSE IF ~StrIsDigit(choice_idx) THEN "invalid"
    ELSE IF ~IntValid(choice_idx) THEN "crash"
    ELSE LET idx == IntOf(choice_idx)
         IN  IF idx < 1 \/ idx > Len(names) THEN "invalid" ELSE "picked"

\* names[idx - 1]; a negative index counts from the end of the list
PickedName(choice_idx, names) ==
    LET idx == IntOf(choice_idx)
    IN  IF idx - 1 >= 0 THEN names[idx] ELSE names[Len(names) + idx]

\* the bell menu prints and goes back to its prompt
BellStays(r) ==
    /\ refused' = r
    /\ UNCHANGED << engine, store, parser, DAY_CONFIG, first_weekday >>

\* an exception nothing catches ends the process
Crash(why, r) ==
    /\ pc' = "terminated"
    /\ lastReturn' = why
    /\ refused' = r
    /\ UNCHANGED << CURRENT_MODE, now, player, args, locals, played, history, store, parser,
                    DAY_CONFIG, first_weekday >>

\* ringBell(times) or ringBell(todays_times, today_only=True)
CallRingBell(times, todayOnly) ==
    /\ RingBell(EntriesOf(times))
    /\ pc' = "tick" => (check_interval' = DefaultInterval /\ today_only' = todayOnly)

\* choice 1: today's bell times
BellToday(todays_times) ==
    /\ pc = "menu"
    /\ IF todays_times # << >>
       THEN CallRingBell(todays_times, TRUE)
       ELSE BellStays(refused)

\* choice 2: use a saved schedule
BellUse(choice_idx) ==
    /\ pc = "menu"
    /\ LET names == list_schedule_names(BELL_SCHEDULES)
           outcome == IndexOutcome(choice_idx, names)
       IN  IF names = << >> THEN BellStays(refused)
           ELSE IF outcome = "crash" THEN Crash("value_error", choice_idx)
           ELSE IF outcome # "picked" THEN BellStays(choice_idx)
           ELSE IF get_schedule(BELL_SCHEDULES, PickedName(choice_idx, names)).times # << >>
           THEN CallRingBell(get_schedule(BELL_SCHEDULES,
                                          PickedName(choice_idx, names)).times, FALSE)
           ELSE BellStays(refused)

\* a store function is called from the bell menu, which goes back to its prompt
BellStores(d) ==
    /\ BELL_SCHEDULES' = d
    /\ UNCHANGED << engine, lastCall, parser, screens >>

\* choice 3, a schedule picked, 1: rename
BellRename(choice_idx, new_name) ==
    /\ pc = "menu"
    /\ LET names == list_schedule_names(BELL_SCHEDULES)
           outcome == IndexOutcome(choice_idx, names)
       IN  IF names = << >> THEN BellStays(refused)
           ELSE IF outcome = "crash" THEN Crash("value_error", choice_idx)
           ELSE IF outcome # "picked" THEN BellStays(choice_idx)
           ELSE IF new_name = "" THEN BellStays(refused)
           ELSE BellStores(rename_schedule(BELL_SCHEDULES,
                                           PickedName(choice_idx, names), new_name))

\* choice 3, a schedule picked, 2: replace timings
BellReplace(choice_idx, new_times) ==
    /\ pc = "menu"
    /\ LET names == list_schedule_names(BELL_SCHEDULES)
           outcome == IndexOutcome(choice_idx, names)
       IN  IF names = << >> THEN BellStays(refused)
           ELSE IF outcome = "crash" THEN Crash("value_error", choice_idx)
           ELSE IF outcome # "picked" THEN BellStays(choice_idx)
           ELSE BellStores(update_schedule(BELL_SCHEDULES,
                                           PickedName(choice_idx, names), new_times))

\* choice 4: create a schedule
BellCreate(name, times) ==
    /\ pc = "menu"
    /\ IF name = "" THEN BellStays(refused)
       ELSE BellStores(update_schedule(BELL_SCHEDULES, name, times))

\* choice 5: delete a schedule
BellDelete(choice_idx, confirm) ==
    /\ pc = "menu"
    /\ LET names == list_schedule_names(BELL_SCHEDULES)
           outcome == IndexOutcome(choice_idx, names)
       IN  IF names = << >> THEN BellStays(refused)
           ELSE IF outcome = "crash" THEN Crash("value_error", choice_idx)
           ELSE IF outcome # "picked" THEN BellStays(choice_idx)
           ELSE IF confirm # "y" THEN BellStays(refused)
           ELSE BellStores(delete_schedule(BELL_SCHEDULES, PickedName(choice_idx, names)))

\* choice 0: set_mode("IDLE"), return
BellBack ==
    /\ pc = "menu"
    /\ CURRENT_MODE' = "IDLE"
    /\ pc' = "main"
    /\ UNCHANGED << now, player, args, locals, played, lastReturn, history, others >>

\* ---------------------------------------------------------------- main_menu
MainBell_NoSetMode ==
    /\ pc = "main"
    /\ pc' = "menu"
    /\ UNCHANGED << CURRENT_MODE, now, player, args, locals, played, lastReturn, history,
                    others >>

\* choice 1: bell_menu() begins with set_mode("BELL")
MainBell ==
    /\ pc = "main"
    /\ CURRENT_MODE' = "BELL"
    /\ pc' = "menu"
    /\ UNCHANGED << now, player, args, locals, played, lastReturn, history, others >>

\* datetime.now().weekday()
Weekday == (first_weekday + DateOf(now)) % 7

\* the head of assembly_menu's loop: get_today_assembly_config() returns, or it
\* raises ValueError and the menu waits for Enter before it returns
AssemblyTop == IF Weekday \in DAY_CONFIG THEN "assembly" ELSE "assembly_closed"

\* choice 2: assembly_menu() begins with set_mode("ASSEMBLY")
MainAssembly ==
    /\ pc = "main"
    /\ CURRENT_MODE' = "ASSEMBLY"
    /\ pc' = AssemblyTop
    /\ UNCHANGED << now, player, args, locals, played, lastReturn, history, others >>

\* choice 3: announcement_menu() begins with set_mode("ANNOUNCEMENT")
MainAnnouncement ==
    /\ pc = "main"
    /\ CURRENT_MODE' = "ANNOUNCEMENT"
    /\ pc' = "announcement"
    /\ UNCHANGED << now, player, args, locals, played, lastReturn, history, others >>

\* choice 4: settings_menu()
MainSettings ==
    /\ pc = "main"
    /\ pc' = "settings"
    /\ UNCHANGED << CURRENT_MODE, now, player, args, locals, played, lastReturn, history,
                    others >>

\* choice 0: Goodbye
MainExit ==
    /\ pc = "main"
    /\ pc' = "exited"
    /\ UNCHANGED << CURRENT_MODE, now, player, args, locals, played, lastReturn, history,
                    others >>

\* ------------------------------------------------------------ assembly_menu
\* choices 1, 2, 3: play_audio_blocking(file)
AssemblyPlay ==
    /\ pc = "assembly"
    /\ \/ /\ player' = "busy"
          /\ pc' = "assembly_playing"
          /\ UNCHANGED lastReturn
       \/ \* music.load or music.play raises pygame.error
          /\ pc' = "terminated"
          /\ lastReturn' = "audio_error"
          /\ UNCHANGED player
    /\ UNCHANGED << CURRENT_MODE, now, args, locals, played, history, others >>

\* while pygame.mixer.music.get_busy(): time.sleep(0.1)
AssemblyBusyWait ==
    /\ pc = "assembly_playing"
    /\ played < MaxPlay
    /\ now < LastNow
    /\ now' = now + 1
    /\ played' = played + 1
    /\ UNCHANGED << CURRENT_MODE, pc, player, args, locals, lastReturn, history, others >>

\* the music ends: back to the head of the loop
AssemblyPlayEnds ==
    /\ pc = "assembly_playing"
    /\ player' = "idle"
    /\ played' = 0
    /\ pc' = AssemblyTop
    /\ UNCHANGED << CURRENT_MODE, now, args, locals, lastReturn, history, others >>

\* choice 6: ring_assembly_bell(5) plays for five seconds and stops the music
AssemblyRingBell ==
    /\ pc = "assembly"
    /\ \/ /\ player' = "idle"
          /\ pc' = AssemblyTop
          /\ UNCHANGED lastReturn
       \/ /\ pc' = "terminated"
          /\ lastReturn' = "audio_error"
          /\ UNCHANGED player
    /\ UNCHANGED << CURRENT_MODE, now, args, locals, played, history, others >>

\* choices 4 and 5 with no file set, and any other text: back to the head of
\* the loop
AssemblyOther ==
    /\ pc = "assembly"
    /\ pc' = AssemblyTop
    /\ UNCHANGED << CURRENT_MODE, now, player, args, locals, played, lastReturn, history,
                    others >>

\* choice 0: set_mode("IDLE"), return
AssemblyBack ==
    /\ pc = "assembly"
    /\ CURRENT_MODE' = "IDLE"
    /\ pc' = "main"
    /\ UNCHANGED << now, player, args, locals, played, lastReturn, history, others >>

\* input("Press Enter to return."), return
AssemblyClosedReturn ==
    /\ pc = "assembly_closed"
    /\ pc' = "main"
    /\ UNCHANGED << CURRENT_MODE, now, player, args, locals, played, lastReturn, history,
                    others >>

\* -------------------------------------------------------- announcement_menu
\* choice 0: set_mode("IDLE"), return
AnnouncementBack ==
    /\ pc = "announcement"
    /\ CURRENT_MODE' = "IDLE"
    /\ pc' = "main"
    /\ UNCHANGED << now, player, args, locals, played, lastReturn, history, others >>

\* ------------------------------------------------------------ settings_menu
\* the day indices the operator types at `Day index:`
DayInputs == 5 .. 6

\* choice 5: DAY_CONFIG[d] is created when d is not a key
SettingsDay(d) ==
    /\ pc = "settings"
    /\ DAY_CONFIG' = DAY_CONFIG \cup {d}
    /\ UNCHANGED << engine, store, parser, first_weekday, refused >>

\* choice 0: return
SettingsBack ==
    /\ pc = "settings"
    /\ pc' = "main"
    /\ UNCHANGED << CURRENT_MODE, now, player, args, locals, played, lastReturn, history,
                    others >>

\* ------------------------------------------------------------- the operator
Prompts == {"main", "assembly", "assembly_closed", "announcement", "settings"}

\* A menu other than the bell menu waits at input(), or the announcement is
\* spoken: time passes, and music an interrupted run left playing may end.
PromptWait ==
    /\ pc \in Prompts
    /\ now < LastNow
    /\ now' = now + 1
    /\ player' \in {player, "idle"}
    /\ UNCHANGED << CURRENT_MODE, pc, args, locals, played, lastReturn, history, others >>

\* Ctrl+C outside ringBell: nothing catches KeyboardInterrupt
PromptInterrupt ==
    /\ pc \in Prompts \cup {"menu", "assembly_playing"}
    /\ pc' = "terminated"
    /\ lastReturn' = "keyboard_interrupt"
    /\ UNCHANGED << CURRENT_MODE, now, player, args, locals, played, history, others >>

\* the weekday of date 0: Friday, a configured day before one that is not, or
\* Sunday, the reverse
FirstWeekdays == {4, 6}

MenuInit ==
    /\ Constructed
    /\ pc = "main"
    /\ first_weekday \in FirstWeekdays
    /\ typed = NothingTyped
    /\ time_input = << >>

\* what the operator types in this specification
MenuIndexInputs == { << "0" >>, << "1" >> }
MenuTimes == { ParsedTimes(<< << "2", "3", ":", "5", "9" >>, << "1", "2", "a", "m" >> >>) }

MenuNext ==
    \/ MainBell
    \/ MainAssembly
    \/ MainAnnouncement
    \/ MainSettings
    \/ MainExit
    \/ \E todays_times \in MenuTimes : BellToday(todays_times)
    \/ \E choice_idx \in MenuIndexInputs : BellUse(choice_idx)
    \/ \E choice_idx \in MenuIndexInputs : BellReplace(choice_idx, << >>)
    \/ \E times \in MenuTimes : BellCreate("Exam Day", times)
    \/ \E choice_idx \in MenuIndexInputs : BellDelete(choice_idx, "y")
    \/ BellBack
    \/ Tick
    \/ BusyWait
    \/ PlaybackEnds
    \/ Sleep
    \/ Interrupt
    \/ BackToMenu
    \/ MenuWait
    \/ MusicEnds
    \/ AssemblyPlay
    \/ AssemblyBusyWait
    \/ AssemblyPlayEnds
    \/ AssemblyRingBell
    \/ AssemblyOther
    \/ AssemblyBack
    \/ AssemblyClosedReturn
    \/ AnnouncementBack
    \/ \E d \in DayInputs : SettingsDay(d)
    \/ SettingsBack
    \/ PromptWait
    \/ PromptInterrupt

\* The program as the operator drives it from main_menu(): one control path,
\* on which set_mode is called by the menus alone.
MenuSpec == MenuInit /\ [][MenuNext]_vars

\* --------------------------------------------------------- the bell menu
\* bell_menu() has been entered from a fresh main menu
BellMenuInit ==
    /\ now = FirstNow
    /\ player = "idle"
    /\ check_interval = 1
    /\ today_only = FALSE
    /\ schedule = {}
    /\ rung_today = {}
    /\ start_date = 0
    /\ hm = << 0, 0 >>
    /\ played = 0
    /\ lastReturn = "none"
    /\ hadValid = FALSE
    /\ fireLog = << >>
    /\ modeAlwaysBell = FALSE
    /\ suppressed = FALSE
    /\ run_begin = 0
    /\ last_tick = 0
    /\ gapExceeded = FALSE
    /\ BELL_SCHEDULES = InitialSchedules
    /\ lastCall = NoCall
    /\ canonical = NotParsed
    /\ DAY_CONFIG = InitialDays
    /\ refused = NoneRefused
    /\ first_weekday = 0
    /\ typed = NothingTyped
    /\ time_input = << >>
    /\ CURRENT_MODE = "BELL"
    /\ pc = "menu"

BellMenuNext ==
    \/ \E todays_times \in TypedTimes_Parsed : BellToday(todays_times)
    \/ \E choice_idx \in IndexInputs : BellUse(choice_idx)
    \/ \E choice_idx \in IndexInputs, new_name \in TypedNames : BellRename(choice_idx, new_name)
    \/ \E choice_idx \in IndexInputs, new_times \in TypedTimes_Parsed :
          BellReplace(choice_idx, new_times)
    \/ \E name \in TypedNames, times \in TypedTimes_Parsed : BellCreate(name, times)
    \/ \E choice_idx \in IndexInputs, confirm \in {"y", "n"} : BellDelete(choice_idx, confirm)
    \/ BellBack

\* The bell menu, entered once from the main menu, with everything the operator
\* can type at its prompts, up to the moment ringBell enters its loop or the
\* menu returns; the loop itself runs in Spec and in MenuSpec.
BellMenuSpec == BellMenuInit /\ [][BellMenuNext]_vars

\* ------------------------------------------------- the times the menu saves
\* every text of the parser's pool, typed at `Time:`
SavedTexts == { Render(ty) : ty \in TypedTimes } \cup OtherTexts

\* new_times, or times, when the operator types x at `Time:` and then `done`
TimesTyped == [x \in SavedTexts |-> ParsedTimes(<< x >>)]

\* the program has started; time_input is what the operator will type at
\* every `Time:` prompt
SavedInit ==
    /\ Constructed
    /\ pc = "main"
    /\ first_weekday = 0
    /\ \/ typed \in TypedTimes /\ time_input = Render(typed)
       \/ typed = NothingTyped /\ time_input \in OtherTexts

\* the indices the operator types in this specification
SavedIndexInputs == { << "1" >>, << "0", "2" >> }

SavedNext ==
    \/ MainBell
    \/ BellCreate("Exam Day", TimesTyped[time_input])
    \/ \E choice_idx \in SavedIndexInputs : BellReplace(choice_idx, TimesTyped[time_input])
    \/ BellRename(<< "1" >>, "Exam Day")
    \/ BellDelete(<< "1" >>, "y")

\* The bell menu's four operations on the store, with one typed time per
\* behaviour taken from the whole pool of the parser.
SavedTimesSpec == SavedInit /\ [][SavedNext]_vars

\* ------------------------------------------------------------ properties
\* the run's loop leaves `while True` for a suspension point or for the caller
TickStep == pc = "tick" /\ pc' # "tick"

\* index of the minute t lies in, counted from 00:00 of date 0
MinuteIndex(t) == t \div SlotsPerMinute

FiredOn(d, t) == \E i \in 1 .. Len(fireLog) : fireLog[i].date = d /\ fireLog[i].at = t

\* the minutes the clock has left since the run began
PassedMinutes == { k \in MinuteIndex(run_begin) .. MinuteIndex(now) : k < MinuteIndex(now) }

PassedAllFired ==
    \A k \in PassedMinutes :
        HourMinute(k * SlotsPerMinute) \in schedule
            => FiredOn(DateOf(k * SlotsPerMinute), HourMinute(k * SlotsPerMinute))

\* C1: every playback the engine starts is started at a poll tick at which
\* CURRENT_MODE is BELL; none is started while the mode is IDLE, ASSEMBLY or
\* ANNOUNCEMENT.
C1_FiresOnlyInBellMode ==
    \A i \in 1 .. Len(fireLog) : fireLog[i].mode = "BELL"

\* a run that was suppressed at some tick and has started a playback
C1_Witness == pc = "playing" /\ fireLog # << >> /\ suppressed

\* C2: within one run and one calendar day a scheduled (hour, minute) starts
\* playback at most once, however many BELL ticks land in that minute.
C2_AtMostOncePerDay ==
    \A i, j \in 1 .. Len(fireLog) :
        (fireLog[i].date = fireLog[j].date /\ fireLog[i].at = fireLog[j].at) => i = j

\* a later BELL tick landed in a minute that had fired, and did not fire again
C2_Witness ==
    /\ pc = "sleep"
    /\ ~suppressed
    /\ Len(fireLog) = 1
    /\ last_tick > fireLog[1].slot
    /\ DateOf(last_tick) = fireLog[1].date
    /\ HourMinute(last_tick) = fireLog[1].at

\* C3, as claimed: with the mode BELL throughout and a poll interval shorter
\* than a minute, every scheduled minute the clock has passed during the run
\* was fired on its day.
C3_Original ==
    (pc \in RunPCs /\ modeAlwaysBell /\ check_interval < SlotsPerMinute) => PassedAllFired

\* C3, amended: the same, provided no two consecutive poll ticks are more than
\* a minute apart (the playback of a firing plus the poll interval fits in a
\* minute).
C3_FiresEveryPassedMinute ==
    (/\ pc \in RunPCs
     /\ modeAlwaysBell
     /\ check_interval < SlotsPerMinute
     /\ ~gapExceeded
     /\ now - last_tick <= SlotsPerMinute) => PassedAllFired

\* two adjacent scheduled minutes both fired, a playback having held the loop
C3_Witness ==
    /\ pc \in RunPCs
    /\ modeAlwaysBell
    /\ check_interval < SlotsPerMinute
    /\ ~gapExceeded
    /\ now - last_tick <= SlotsPerMinute
    /\ Len(fireLog) = 2
    /\ fireLog[2].slot - fireLog[1].slot = SlotsPerMinute
    /\ \E k \in PassedMinutes :
          /\ fireLog[1].at = HourMinute(k * SlotsPerMinute)
          /\ fireLog[2].at = HourMinute((k + 1) * SlotsPerMinute)

C6_RungSubsetOfSchedule == rung_today \subseteq schedule

\* after a midnight reset, a firing of the new date is in rung_today
C6_Witness ==
    /\ pc \in RunPCs
    /\ start_date # DateOf(run_begin)
    /\ rung_today # {}
    /\ Len(fireLog) >= 2

\* C7: a tick with CURRENT_MODE # BELL starts no playback and does not end
\* the run, it sleeps; and a BELL tick of a run that was suppressed before
\* fires the current minute when it is scheduled and has not fired today
\* (the playback starts, or the player raises).
C7_SuppressedThenResumes ==
    [][TickStep =>
         /\ CURRENT_MODE # "BELL"
              => /\ pc' = "sleep"
                 /\ player' = player
                 /\ fireLog' = fireLog
                 /\ rung_today' = rung_today
         /\ (/\ CURRENT_MODE = "BELL"
             /\ suppressed
             /\ ~(today_only /\ DateOf(now) # start_date)
             /\ HourMinute(now) \in schedule
             /\ ~FiredOn(DateOf(now), HourMinute(now)))
              => \/ pc' = "playing" /\ fireLog' # fireLog
                 \/ pc' = "terminated"]_vars

\* a playback started by a run some earlier tick of which was suppressed
C7_Witness ==
    /\ pc = "playing"
    /\ fireLog # << >>
    /\ fireLog[Len(fireLog)].resumed
    /\ CURRENT_MODE = "BELL"

\* C8: a failure of the audio player during a firing does not terminate the
\* process.
C8_Original == ~(pc = "terminated" /\ lastReturn = "audio_error")

\* C9: when an interrupt ends the run, control is back in the bell menu and
\* the player is not playing.
C9_Original ==
    [][(pc \in {"sleep", "playing"} /\ pc' = "returned") => player' = "idle"]_vars

\* C10: the loop is never entered with an empty fire set: a run is in its
\* loop only if schedule is not empty and the given list held a well-formed
\* HH:MM time; otherwise ringBell has returned without starting playback.
C10_NoLoopWithoutEntries ==
    pc \in RunPCs => (schedule # {} /\ hadValid)

\* ringBell was given entries none of which is a valid time, and returned
C10_Witness == pc = "returned" /\ lastReturn = "no_valid" /\ fireLog = << >>

\* C17: in a run that is not today-only, rung_today loses an entry only at a
\* tick that sees a date other than start_date, and that tick empties it and
\* advances start_date to the date it saw; a step taken while the date is
\* start_date never removes an entry, so what fired after the reset stays
\* fired until the next change of date.
C17_ClearedOncePerDateChange ==
    [][(pc \in RunPCs /\ pc' \in RunPCs /\ ~today_only) =>
         /\ ~(rung_today \subseteq rung_today')
              => /\ TickStep
                 /\ DateOf(now) # start_date
                 /\ rung_today' = {}
                 /\ start_date' = DateOf(now)
         /\ DateOf(now) = start_date => rung_today \subseteq rung_today']_vars

\* an entry fired after the midnight reset is still in rung_today after a
\* later tick of the same date
C17_Witness ==
    /\ pc = "sleep"
    /\ ~today_only
    /\ start_date # DateOf(run_begin)
    /\ fireLog # << >>
    /\ fireLog[Len(fireLog)].date = start_date
    /\ fireLog[Len(fireLog)].at \in rung_today
    /\ last_tick > fireLog[Len(fireLog)].slot
    /\ DateOf(last_tick) = start_date

\* C18: every playback is started at a tick whose own (hour, minute) is in
\* the fire set; no playback is started for a scheduled minute at a tick of
\* another minute.
C18_NeverFiresLate ==
    \A i \in 1 .. Len(fireLog) :
        /\ fireLog[i].at \in schedule
        /\ fireLog[i].at = HourMinute(fireLog[i].slot)
        /\ fireLog[i].date = DateOf(fireLog[i].slot)

\* a scheduled minute of today has passed without firing, and a BELL tick of
\* a later minute of the same day has not rung it
C18_Witness ==
    /\ pc = "sleep"
    /\ last_tick = now
    /\ hm = HourMinute(now)
    /\ hm \notin schedule
    /\ \E k \in PassedMinutes :
          /\ HourMinute(k * SlotsPerMinute) \in schedule
          /\ DateOf(k * SlotsPerMinute) = DateOf(now)
          /\ ~FiredOn(DateOf(now), HourMinute(k * SlotsPerMinute))

NoDuplicates(seq) == \A i, j \in 1 .. Len(seq) : seq[i] = seq[j] => i = j

\* C11: after rename_schedule(old, new) with old in the store, the store maps
\* new to the times old was mapped to before the call, for every new: one
\* the store does not hold, one it holds, and old itself.
C11_Original ==
    [][(lastCall'.op = "rename" /\ DictHas(BELL_SCHEDULES, lastCall'.a))
          => get_schedule(BELL_SCHEDULES', lastCall'.b)
                 = get_schedule(BELL_SCHEDULES, lastCall'.a)]_vars

\* C12: no schedule of the store holds a time twice: a list stored with
\* duplicates is read back with each distinct time once.
C12_Original ==
    \A i \in 1 .. Len(BELL_SCHEDULES) : NoDuplicates(BELL_SCHEDULES[i].times)

\* C13: rename_schedule with old not in the store and delete_schedule with a
\* name not in the store raise nothing and leave the store, names, order and
\* times, as it was.
C13_AbsentNameIsNoOp ==
    [][(lastCall'.op \in {"rename", "delete"} /\ ~DictHas(BELL_SCHEDULES, lastCall'.a))
          => (BELL_SCHEDULES' = BELL_SCHEDULES /\ ~lastCall'.raised)]_vars

\* rename_schedule was called with a name the store, changed before, did not
\* hold
C13_Witness ==
    /\ lastCall.op = "rename"
    /\ ~lastCall.had
    /\ lastCall.a # lastCall.b
    /\ Len(BELL_SCHEDULES) = 2
    /\ BELL_SCHEDULES # InitialSchedules

\* the hour and minute a returned text HH:MM denotes
TimeOfText(x) ==
    << 10 * DigitValue(x[1]) + DigitValue(x[2]), 10 * DigitValue(x[4]) + DigitValue(x[5]) >>

\* the conversion the parser is to compute
RefHour(ty) ==
    CASE ty.marker = "" -> ty.hour
      [] ty.marker = "am" -> IF ty.hour = 12 THEN 0 ELSE ty.hour
      [] ty.marker = "pm" -> IF ty.hour = 12 THEN 12 ELSE ty.hour + 12

RefMinute(ty) == IF ty.minute = -1 THEN 0 ELSE ty.minute

\* the marked hour is one a 12-hour clock shows
MarkedHourOk(ty) == ty.marker # "" => ty.hour \in 1 .. 12

\* C14: for a typed time of the grammar (a marked hour being in 1 .. 12),
\* the parser returns HH:MM for the reference conversion when that is a time
\* of day (hour in 0 .. 23, minute in 0 .. 59), and fails otherwise: no
\* marker leaves hour and minute as typed, a missing minute is 00, 12am is
\* hour 0, 12pm is hour 12, any other pm hour gets 12 added.
C14_ReferenceConversion ==
    (canonical.done /\ typed.grammar /\ MarkedHourOk(typed)) =>
        IF RefHour(typed) \in 0 .. 23 /\ RefMinute(typed) \in 0 .. 59
        THEN /\ canonical.ok
             /\ Len(canonical.text) = 5
             /\ canonical.text[3] = ":"
             /\ TimeOfText(canonical.text) = << RefHour(typed), RefMinute(typed) >>
        ELSE ~canonical.ok

\* the operator typed 9:30 PM and the parser returned 21:30
C14_Witness ==
    /\ canonical.done
    /\ typed.grammar
    /\ typed.hour = 9 /\ typed.minute = 30 /\ typed.marker = "pm" /\ typed.capitals
    /\ canonical.ok
    /\ canonical.text = << "2", "1", ":", "3", "0" >>

\* C15: a typed time that carries a marker and an hour outside 1 .. 12 is
\* refused.
C15_Original ==
    (canonical.done /\ typed.grammar /\ typed.marker # "" /\ typed.hour \notin 1 .. 12)
        => ~canonical.ok

\* C19: whenever the main menu waits for the operator's choice, CURRENT_MODE is
\* IDLE.
C19_Original == pc = "main" => CURRENT_MODE = "IDLE"

\* C20: in the menu-driven program CURRENT_MODE is BELL at every poll tick of
\* every run of ringBell, and through the whole run: the mode gate never
\* suppresses a tick.
C20_BellModeThroughoutRun ==
    /\ pc \in RunPCs => CURRENT_MODE = "BELL"
    /\ ~suppressed

\* a run started from the bell menu has ticked more than once, has rung, and
\* sleeps between two ticks
C20_Witness ==
    /\ pc = "sleep"
    /\ last_tick > run_begin
    /\ fireLog # << >>
    /\ CURRENT_MODE = "BELL"

\* the text is a decimal numeral
IsNumeral(x) ==
    x # << >> /\ \A i \in 1 .. Len(x) : \E d \in 1 .. 10 : x[i] = DigitChars[d]

\* the text is an index of the printed list: 1 for the first name, Len(names)
\* for the last
AcceptedIndex(x, names) == IsNumeral(x) /\ DigitsValue(x) \in 1 .. Len(names)

\* no run of ringBell begins and the store is what it was
NothingStarted == pc' \notin RunPCs /\ UNCHANGED << BELL_SCHEDULES, args, locals >>

\* what the claim says of a text that is not an accepted index
TurnedDown(x) ==
    IF x = << "0" >> THEN pc' = "menu" /\ NothingStarted ELSE NothingStarted

\* C16: at the selection points of use, edit and delete, 0 goes back to the
\* bell menu with no run started and the store unchanged; a text that is not a
\* numeral, or a numeral below 1 or above the number of listed names, starts
\* no run and changes nothing in the store; an accepted index i acts on the
\* i-th listed name: use runs its times, rename moves them to the new name,
\* replace gives it the new times, a confirmed delete removes it.
C16_SelectionPoints ==
    [][\A x \in IndexInputs :
          LET names == list_schedule_names(BELL_SCHEDULES)
              accepted == AcceptedIndex(x, names)
              ith == names[DigitsValue(x)]
              times == DictGet(BELL_SCHEDULES, ith)
          IN  /\ BellUse(x) =>
                    IF ~accepted THEN TurnedDown(x)
                    ELSE IF times # << >>
                    THEN /\ pc' = "tick"
                         /\ schedule' = ParseSchedule(EntriesOf(times))
                         /\ ~today_only'
                         /\ UNCHANGED BELL_SCHEDULES
                    ELSE pc' = "menu" /\ NothingStarted
              /\ \A new_name \in TypedNames :
                    BellRename(x, new_name) =>
                        IF ~accepted THEN TurnedDown(x)
                        ELSE /\ pc' = "menu"
                             /\ new_name = "" => UNCHANGED BELL_SCHEDULES
                             /\ new_name \notin {"", ith} =>
                                   /\ ~DictHas(BELL_SCHEDULES', ith)
                                   /\ DictHas(BELL_SCHEDULES', new_name)
                                   /\ DictGet(BELL_SCHEDULES', new_name) = times
              /\ \A new_times \in TypedTimes_Parsed :
                    BellReplace(x, new_times) =>
                        IF ~accepted THEN TurnedDown(x)
                        ELSE /\ pc' = "menu"
                             /\ list_schedule_names(BELL_SCHEDULES') = names
                             /\ DictGet(BELL_SCHEDULES', ith) = new_times
                             /\ \A i \in 1 .. Len(names) :
                                   names[i] # ith => BELL_SCHEDULES'[i] = BELL_SCHEDULES[i]
              /\ \A confirm \in {"y", "n"} :
                    BellDelete(x, confirm) =>
                        IF ~accepted THEN TurnedDown(x)
                        ELSE IF confirm = "n" THEN pc' = "menu" /\ NothingStarted
                        ELSE /\ pc' = "menu"
                             /\ BELL_SCHEDULES' =
                                    SelectSeq(BELL_SCHEDULES, LAMBDA it : it.name # ith)
      ]_vars

\* 0 was entered at a selection point and left the store as it was; then the
\* index 02 started a run on the times of the second listed name
C16_Witness ==
    /\ refused = << "0" >>
    /\ BELL_SCHEDULES = InitialSchedules
    /\ pc = "tick"
    /\ ~today_only
    /\ schedule = ParseSchedule(EntriesOf(InitialSchedules[2].times))

\* a canonical 24-hour time: two digits, a colon, two digits, the hour in
\* 0 .. 23 and the minute in 0 .. 59
IsCanonical(x) ==
    /\ Len(x) = 5
    /\ x[3] = ":"
    /\ \A i \in {1, 2, 4, 5} : \E d \in 1 .. 10 : x[i] = DigitChars[d]
    /\ DigitsValue(SubSeq(x, 1, 2)) \in 0 .. 23
    /\ DigitsValue(SubSeq(x, 4, 5)) \in 0 .. 59

\* C21: after any sequence of create, replace timings, rename and delete in
\* the bell menu, every time of every stored schedule is a canonical 24-hour
\* time, and ringBell's validation accepts it.
C21_StoredTimesCanonical ==
    \A i \in 1 .. Len(BELL_SCHEDULES) :
        \A j \in 1 .. Len(BELL_SCHEDULES[i].times) :
            /\ IsCanonical(BELL_SCHEDULES[i].times[j])
            /\ ValidEntry(EntryOf(BELL_SCHEDULES[i].times[j]))

\* `9:30 PM` was typed: a created schedule holds 21:30, and so does the
\* schedule listed first after the first one was deleted
C21_Witness ==
    /\ typed.grammar
    /\ typed.hour = 9 /\ typed.minute = 30 /\ typed.marker = "pm"
    /\ typed.blank /\ typed.capitals
    /\ list_schedule_names(BELL_SCHEDULES) = << "Short Friday", "Exam Day" >>
    /\ BELL_SCHEDULES[1].times = << FormatHHMM(21, 30) >>
    /\ BELL_SCHEDULES[2].times = << FormatHHMM(21, 30) >>
====
